---------------------------- MODULE Spec2Model ----------------------------
(***************************************************************************)
(* A model of creamsensation/parser: the request-data binding helper of    *)
(* src/parser.go (the current source, with Query/PathValue/Url built on    *)
(* util.ConvertValue and util.ConvertSlice) and of src/unnamed/part_001    *)
(* (the earlier source, with QueryParam/PathValue/Url built on             *)
(* util.SetValueToReflected).  Definitions of the earlier source carry     *)
(* the suffix _v0 where the name is shared.                                *)
(*                                                                         *)
(* Strings that the code converts or decodes are sequences of one-         *)
(* character strings, so that a conversion is computed and not looked up.  *)
(* Keys, tags and error values are only compared, and are plain strings.   *)
(***************************************************************************)
EXTENDS Integers, Sequences, FiniteSets, TLC

VARIABLES
    r,       \* the *http.Request the Parser holds (p.r)
    bytes,   \* p.bytes, the pre-buffered payload given to New
    target,  \* the caller's destination memory (values of the struct's fields)
    call,    \* the last call: its arguments, the state it saw, and its results
    done     \* history: what earlier calls already did to the request

vars == <<r, bytes, target, call, done>>

(***************************************************************************)
(* Bounds of the model.                                                    *)
(***************************************************************************)
MaxBody == 3    \* longest body stream and longest payload, in bytes

(***************************************************************************)
(* Error values (the Error... variables of the package and of util, and    *)
(* the errors of the standard library the code passes on).                 *)
(***************************************************************************)
NoError == "nil"

NoCall == [op |-> "none"]

StringsUpTo(S, n) == UNION {[1..k -> S] : k \in 0..n}

(***************************************************************************)
(* The body stream: r.Body.  A nil Body has isNil set.  A live stream      *)
(* holds the bytes the client sent and the number already consumed; it is  *)
(* never rewound.                                                          *)
(***************************************************************************)
Byte == {"1", " ", "x"}   \* a digit, a JSON/XML white space, any other byte

NilBody == [isNil |-> TRUE, data |-> <<>>, pos |-> 0]

LiveBody(d) == [isNil |-> FALSE, data |-> d, pos |-> 0]

Remaining(b) == SubSeq(b.data, b.pos + 1, Len(b.data))

\* io.ReadAll: everything up to end of stream, and the stream left drained.
ReadAll(b) ==
    [data |-> Remaining(b), err |-> NoError,
     body |-> [b EXCEPT !.pos = Len(b.data)]]


(***************************************************************************)
(* Decimal parsing, as strconv does it for the digit strings of the model. *)
(***************************************************************************)
Digits == <<"0", "1", "2", "3", "4", "5", "6", "7", "8", "9">>

IsDigit(c) == \E i \in DOMAIN Digits : Digits[i] = c

DigitVal(c) == (CHOOSE i \in DOMAIN Digits : Digits[i] = c) - 1

RECURSIVE ParseDigits(_, _)
ParseDigits(s, acc) ==
    IF s = <<>> THEN acc
    ELSE ParseDigits(Tail(s), acc * Len(Digits) + DigitVal(Head(s)))

AllDigits(s) == s # <<>> /\ \A i \in DOMAIN s : IsDigit(s[i])

(***************************************************************************)
(* encoding/json on the bytes of the model: a document is a number, with   *)
(* white space around it.                                                  *)
(***************************************************************************)
IsSpace(c) == c = " "

RECURSIVE SpaceRun(_)
SpaceRun(s) ==
    IF s # <<>> /\ IsSpace(Head(s)) THEN 1 + SpaceRun(Tail(s)) ELSE 0

RECURSIVE DigitRun(_)
DigitRun(s) ==
    IF s # <<>> /\ IsDigit(Head(s)) THEN 1 + DigitRun(Tail(s)) ELSE 0

Drop(s, n) == SubSeq(s, n + 1, Len(s))

\* json.Unmarshal(data, &int): the whole of data must be one document.
JsonUnmarshal(data) ==
    LET t == Drop(data, SpaceRun(data))
        n == DigitRun(t)
        u == Drop(t, n)
    IN  IF n > 0 /\ SpaceRun(u) = Len(u)
        THEN [err |-> NoError, set |-> TRUE, value |-> ParseDigits(SubSeq(t, 1, n), 0)]
        ELSE [err |-> "SyntaxError", set |-> FALSE, value |-> 0]

\* json.NewDecoder(body).Decode(&int): reads one document from the stream.
\* need is the number of bytes the decoder must have read to decide; the
\* transport may have handed it more (it reads in chunks).
JsonDecode(b) ==
    LET rest == Remaining(b)
        sp == SpaceRun(rest)
        t == Drop(rest, sp)
        n == DigitRun(t)
    IN  IF t = <<>>
        THEN [err |-> "EOF", set |-> FALSE, value |-> 0, need |-> Len(rest)]
        ELSE IF n = 0
        THEN [err |-> "SyntaxError", set |-> FALSE, value |-> 0, need |-> sp + 1]
        ELSE [err |-> NoError, set |-> TRUE,
              value |-> ParseDigits(SubSeq(t, 1, n), 0),
              need |-> IF sp + n < Len(rest) THEN sp + n + 1 ELSE Len(rest)]

(***************************************************************************)
(* Destinations.  A destination is a struct field: its tags, its kind and  *)
(* the value it holds.  Kinds: int, string and []string ("strings").  The   *)
(* value a destination holds before a call is one no conversion yields.    *)
(***************************************************************************)
OldString == <<"o", "l", "d">>

OldValue(kind) ==
    CASE kind = "int" -> 5
      [] kind = "string" -> OldString
      [] kind = "strings" -> <<OldString>>

ZeroValue(kind) ==
    CASE kind = "int" -> 0
      [] kind = "string" -> <<>>
      [] kind = "strings" -> <<>>

IsSliceKind(kind) == kind = "strings"

ElemKind(kind) == "string"

Field(q, pth, kind) ==
    [query |-> q, path |-> pth, kind |-> kind, value |-> OldValue(kind)]

(***************************************************************************)
(* The request of a body-accessor run: only its Body matters.              *)
(***************************************************************************)
EmptyRequest ==
    [query |-> <<>>, path |-> <<>>, Body |-> NilBody, multipart |-> FALSE,
     wire |-> <<>>, parseOk |-> TRUE, parsed |-> FALSE]

NothingDone == [text |-> FALSE, parse |-> FALSE]

\* prev is the call before this one: its operation and what it returned
BodyCall(op, ret, err) ==
    [op |-> op, ret |-> ret, err |-> err,
     body0 |-> r.Body, done0 |-> done, target0 |-> target,
     prev |-> IF call.op = "none" THEN [op |-> "none", ret |-> <<>>]
              ELSE [op |-> call.op, ret |-> call.ret]]

\* Text with the two sources tried in the wrong order: the live stream
\* first, the payload only when there is no stream
Text_streamFirst ==
    IF ~r.Body.isNil
    THEN LET res == ReadAll(r.Body)
         IN  /\ call' = BodyCall("Text", res.data, res.err)
             /\ r' = [r EXCEPT !.Body = res.body]
             /\ done' = [done EXCEPT !.text = TRUE]
             /\ UNCHANGED <<bytes, target>>
    ELSE /\ call' = BodyCall("Text", bytes, NoError)
         /\ UNCHANGED <<r, bytes, target, done>>

\* func (p *Parser) Text() (string, error)
Text ==
    IF Len(bytes) > 0
    THEN /\ call' = BodyCall("Text", bytes, NoError)
         /\ UNCHANGED <<r, bytes, target, done>>
    ELSE IF r.Body.isNil
    THEN /\ call' = BodyCall("Text", <<>>, NoError)
         /\ UNCHANGED <<r, bytes, target, done>>
    ELSE LET res == ReadAll(r.Body)
         IN  /\ call' = BodyCall("Text", res.data, res.err)
             /\ r' = [r EXCEPT !.Body = res.body]
             /\ done' = [done EXCEPT !.text = TRUE]
             /\ UNCHANGED <<bytes, target>>

\* Json without its io.EOF case
JsonEofIsNil_passed(err) == err

\* lines 140-143 of Json: io.EOF from the decoder is success
JsonEofIsNil(err) == IF err = "EOF" THEN NoError ELSE err

\* func (p *Parser) Json(target any) error, with target a *int
Json ==
    IF Len(bytes) > 0
    THEN LET res == JsonUnmarshal(bytes)
         IN  /\ call' = BodyCall("Json", <<>>, res.err)
             /\ target' = IF res.set THEN [target EXCEPT ![1].value = res.value] ELSE target
             /\ UNCHANGED <<r, bytes, done>>
    ELSE IF r.Body.isNil
    THEN /\ call' = BodyCall("Json", <<>>, NoError)
         /\ UNCHANGED <<r, bytes, target, done>>
    ELSE LET res == JsonDecode(r.Body)
         IN  /\ call' = BodyCall("Json", <<>>, JsonEofIsNil(res.err))
             /\ target' = IF res.set THEN [target EXCEPT ![1].value = res.value] ELSE target
             /\ \E k \in res.need .. Len(Remaining(r.Body)) :
                    r' = [r EXCEPT !.Body.pos = r.Body.pos + k]
             /\ UNCHANGED <<bytes, done>>

\* func (p *Parser) Xml(value any) error.  No byte of the model opens an
\* element, so encoding/xml reads to the end and reports io.EOF.
Xml ==
    IF Len(bytes) > 0
    THEN /\ call' = BodyCall("Xml", <<>>, "EOF")
         /\ UNCHANGED <<r, bytes, target, done>>
    ELSE IF r.Body.isNil
    THEN /\ call' = BodyCall("Xml", <<>>, NoError)
         /\ UNCHANGED <<r, bytes, target, done>>
    ELSE /\ call' = BodyCall("Xml", <<>>, "EOF")
         /\ r' = [r EXCEPT !.Body = ReadAll(r.Body).body]
         /\ UNCHANGED <<bytes, target, done>>

InitBody ==
    /\ \E d \in StringsUpTo(Byte, MaxBody) :
           r \in {[EmptyRequest EXCEPT !.Body = b] : b \in {NilBody, LiveBody(d)}}
    /\ bytes \in StringsUpTo(Byte, MaxBody)
    /\ target = <<Field("", "", "int")>>
    /\ call = NoCall
    /\ done = NothingDone

NextBody == Text \/ Json \/ Xml

SpecBody == InitBody /\ [][NextBody]_vars


(***************************************************************************)
(* The URL of a request: the raw query is the sequence of key=value pairs  *)
(* of the query string; r.URL.Query() groups the values by key, in order.  *)
(* Path values are a lookup that yields the empty string for an unknown    *)
(* key.                                                                    *)
(***************************************************************************)
QueryKeys == {"", "id", "tags"}

\* the key=value pairs a query string of the model is made of
QueryPairs ==
    { <<"id", <<"4", "2">>>>, <<"id", <<"a">>>>,
      <<"tags", <<"a">>>>, <<"tags", <<"4", "2">>>>,
      <<"", <<"a">>>> }

PathKeys == {"id"}

PathVals == {<<>>, <<"7">>, <<"a">>}

RECURSIVE Values(_, _)
\* r.URL.Query()[key]: the values of key, in the order of the query string
Values(query, key) ==
    IF query = <<>> THEN <<>>
    ELSE IF Head(query)[1] = key
         THEN <<Head(query)[2]>> \o Values(Tail(query), key)
         ELSE Values(Tail(query), key)

\* r.URL.Query().Has(key)
Has(query, key) == Len(Values(query, key)) > 0

\* r.URL.Query().Get(key): the first value, or the empty string
Get(query, key) ==
    IF Has(query, key) THEN Values(query, key)[1] ELSE <<>>

\* r.PathValue(key)
PathValueOf(req, key) ==
    IF key \in DOMAIN req.path THEN req.path[key] ELSE <<>>

(***************************************************************************)
(* The conversion utility (github.com/creamsensation/util).  Where its     *)
(* contract leaves a case open, lib chooses: "strict" refuses the case,    *)
(* "lenient" makes the most of it.                                         *)
(***************************************************************************)
Libs == {"strict", "lenient"}

\* the textual-to-typed parse of one literal into a scalar kind
ParseScalar(kind, s) ==
    IF kind = "string" THEN [ok |-> TRUE, value |-> s]
    ELSE IF AllDigits(s) THEN [ok |-> TRUE, value |-> ParseDigits(s, 0)]
    ELSE [ok |-> FALSE, value |-> 0]

RECURSIVE ParseAll(_, _)
ParseAll(kind, ss) ==
    IF ss = <<>> THEN [ok |-> TRUE, value |-> <<>>]
    ELSE LET h == ParseScalar(kind, Head(ss))
             t == ParseAll(kind, Tail(ss))
         IN  [ok |-> h.ok /\ t.ok,
              value |-> IF h.ok /\ t.ok THEN <<h.value>> \o t.value ELSE <<>>]

\* util.ConvertValue(value, target): one literal into the destination
ConvertValue(s, f, ptr, lib) ==
    IF ~ptr THEN [err |-> "ErrorPointerTarget", value |-> f.value]
    ELSE IF IsSliceKind(f.kind)
    THEN LET e == ParseScalar(ElemKind(f.kind), s)
         IN  IF lib = "lenient" /\ e.ok
             THEN [err |-> NoError, value |-> <<e.value>>]
             ELSE [err |-> "ConvertError", value |-> f.value]
    ELSE LET e == ParseScalar(f.kind, s)
         IN  IF e.ok THEN [err |-> NoError, value |-> e.value]
             ELSE [err |-> "ConvertError", value |-> f.value]

\* util.ConvertSlice(values, target): many literals into a sequence
ConvertSlice(ss, f, ptr, lib) ==
    IF ~ptr THEN [err |-> "ErrorPointerTarget", value |-> f.value]
    ELSE IF ~IsSliceKind(f.kind)
    THEN [err |-> "ConvertError", value |-> f.value]
    ELSE LET e == ParseAll(ElemKind(f.kind), ss)
         IN  IF e.ok THEN [err |-> NoError, value |-> e.value]
             ELSE [err |-> "ConvertError", value |-> f.value]

\* util.SetValueToReflected(kind, v, value) of the earlier source: it
\* returns no error
SetValueToReflected(f, s, lib) ==
    IF IsSliceKind(f.kind)
    THEN LET e == ParseScalar(ElemKind(f.kind), s)
         IN  IF lib = "lenient" /\ e.ok THEN <<e.value>> ELSE f.value
    ELSE LET e == ParseScalar(f.kind, s)
         IN  IF e.ok THEN e.value
             ELSE IF lib = "lenient" THEN ZeroValue(f.kind) ELSE f.value


(***************************************************************************)
(* Single-key extractors.  Every binding call is given a freshly declared  *)
(* destination.  For a single-key extractor it is the field target[1],     *)
(* passed by reference (ptr) or by value; a destination passed by value    *)
(* is a copy, so the caller's memory keeps its value whatever happens.     *)
(***************************************************************************)
\* the destination a caller declares for a call: every field at its old value
Fresh(tgt) ==
    [i \in DOMAIN tgt |-> [tgt[i] EXCEPT !.value = OldValue(tgt[i].kind)]]

BindCall(op, key, ptr, err, at) ==
    [op |-> op, key |-> key, ptr |-> ptr, err |-> err, at |-> at,
     target0 |-> Fresh(target)]

\* Query converting only the first value of a key
QueryResult_firstOnly(req, f, key, ptr, lib) ==
    LET qv == Values(req.query, key)
    IN  IF Len(qv) = 0 THEN [err |-> "ErrorQueryMissing", value |-> f.value]
        ELSE ConvertValue(qv[1], f, ptr, lib)

\* func (p *Parser) Query(key string, target any) error.  The query
\* mapping of a parsed URL holds no key with zero values, so a key with
\* n = 0 values is an absent key (line 62 is never reached).
QueryResult(req, f, key, ptr, lib) ==
    LET qv == Values(req.query, key)
        n == Len(qv)
    IN  IF n = 0 THEN [err |-> "ErrorQueryMissing", value |-> f.value]
        ELSE IF n = 1 THEN ConvertValue(qv[1], f, ptr, lib)
        ELSE ConvertSlice(qv, f, ptr, lib)

Query(key, ptr, lib) ==
    LET res == QueryResult(r, Fresh(target)[1], key, ptr, lib)
    IN  /\ call' = BindCall("Query", key, ptr, res.err, 0)
        /\ target' = [Fresh(target) EXCEPT ![1].value = res.value]
        /\ UNCHANGED <<r, bytes, done>>

\* PathValue without its check for an empty path value
PathValueResult_unchecked(req, f, key, ptr, lib) ==
    ConvertValue(PathValueOf(req, key), f, ptr, lib)

\* func (p *Parser) PathValue(key string, target any) error
PathValueResult(req, f, key, ptr, lib) ==
    LET pathValue == PathValueOf(req, key)
    IN  IF Len(pathValue) = 0
        THEN [err |-> "ErrorPathValueMissing", value |-> f.value]
        ELSE ConvertValue(pathValue, f, ptr, lib)

PathValue(key, ptr, lib) ==
    LET res == PathValueResult(r, Fresh(target)[1], key, ptr, lib)
    IN  /\ call' = BindCall("PathValue", key, ptr, res.err, 0)
        /\ target' = [Fresh(target) EXCEPT ![1].value = res.value]
        /\ UNCHANGED <<r, bytes, done>>

\* func (p *Parser) QueryParam(key string, target any) error (earlier source)
QueryParamResult(req, f, key, ptr, lib) ==
    IF ~ptr THEN [err |-> "ErrorPointerTarget", value |-> f.value]
    ELSE IF ~Has(req.query, key)
    THEN [err |-> "ErrorQueryParamMissing", value |-> f.value]
    ELSE [err |-> NoError,
          value |-> SetValueToReflected(f, Get(req.query, key), lib)]

QueryParam(key, ptr, lib) ==
    LET res == QueryParamResult(r, Fresh(target)[1], key, ptr, lib)
    IN  /\ call' = BindCall("QueryParam", key, ptr, res.err, 0)
        /\ target' = [Fresh(target) EXCEPT ![1].value = res.value]
        /\ UNCHANGED <<r, bytes, done>>

\* func (p *Parser) PathValue(key string, target any) error (earlier source)
PathValueResult_v0(req, f, key, ptr, lib) ==
    IF ~ptr THEN [err |-> "ErrorPointerTarget", value |-> f.value]
    ELSE LET pathValue == PathValueOf(req, key)
         IN  IF Len(pathValue) = 0
             THEN [err |-> "ErrorPathValueMissing", value |-> f.value]
             ELSE [err |-> NoError,
                   value |-> SetValueToReflected(f, pathValue, lib)]

PathValue_v0(key, ptr, lib) ==
    LET res == PathValueResult_v0(r, Fresh(target)[1], key, ptr, lib)
    IN  /\ call' = BindCall("PathValue_v0", key, ptr, res.err, 0)
        /\ target' = [Fresh(target) EXCEPT ![1].value = res.value]
        /\ UNCHANGED <<r, bytes, done>>

(***************************************************************************)
(* Struct binding.                                                         *)
(***************************************************************************)
\* func (p *Parser) processQuery(fieldInfo, fieldValue) error
processQuery(req, f, lib) ==
    LET q == Values(req.query, f.query)
    IN  IF Len(q) = 0 THEN [err |-> NoError, value |-> f.value]
        ELSE IF Len(q) = 1 THEN ConvertValue(q[1], f, TRUE, lib)
        ELSE ConvertSlice(q, f, TRUE, lib)

\* func (p *Parser) processPathValue(fieldInfo, fieldValue) error
processPathValue(req, f, lib) ==
    LET pathValue == PathValueOf(req, f.path)
    IN  IF pathValue = <<>> THEN [err |-> NoError, value |-> f.value]
        ELSE ConvertValue(pathValue, f, TRUE, lib)

\* the loop body with the two sources swapped: path first, then query
UrlField_pathFirst(req, f, lib) ==
    LET pv == processPathValue(req, f, lib)
    IN  IF pv.err # NoError THEN pv
        ELSE processQuery(req, [f EXCEPT !.value = pv.value], lib)

\* one pass of Url's loop body over field f: query first, then path
UrlField(req, f, lib) ==
    LET q == processQuery(req, f, lib)
    IN  IF q.err # NoError THEN q
        ELSE processPathValue(req, [f EXCEPT !.value = q.value], lib)

RECURSIVE UrlFrom_goesOn(_, _, _, _)
\* the loop going on to the remaining fields after a field's error
UrlFrom_goesOn(req, tgt, i, lib) ==
    IF i > Len(tgt) THEN [err |-> NoError, target |-> tgt, at |-> i]
    ELSE LET res == UrlField(req, tgt[i], lib)
             tgt1 == [tgt EXCEPT ![i].value = res.value]
             rest == UrlFrom_goesOn(req, tgt1, i + 1, lib)
         IN  IF res.err # NoError
             THEN [err |-> res.err, target |-> rest.target, at |-> i]
             ELSE rest

RECURSIVE UrlFrom(_, _, _, _)
\* Url's loop from field i on; at is the field it stopped at
UrlFrom(req, tgt, i, lib) ==
    IF i > Len(tgt) THEN [err |-> NoError, target |-> tgt, at |-> i]
    ELSE LET res == UrlField(req, tgt[i], lib)
             tgt1 == [tgt EXCEPT ![i].value = res.value]
         IN  IF res.err # NoError
             THEN [err |-> res.err, target |-> tgt1, at |-> i]
             ELSE UrlFrom(req, tgt1, i + 1, lib)

\* func (p *Parser) Url(target any) error
UrlResult(req, tgt, ptr, lib) ==
    IF ~ptr THEN [err |-> "ErrorPointerTarget", target |-> tgt, at |-> 0]
    ELSE UrlFrom(req, tgt, 1, lib)

Url(ptr, lib) ==
    LET res == UrlResult(r, Fresh(target), ptr, lib)
    IN  /\ call' = BindCall("Url", "", ptr, res.err, res.at)
        /\ target' = res.target
        /\ UNCHANGED <<r, bytes, done>>

\* the loop body of the earlier Url over field f
UrlField_v0(req, f, lib) ==
    LET v1 == IF Len(f.query) > 0 /\ Has(req.query, f.query)
              THEN SetValueToReflected(f, Get(req.query, f.query), lib)
              ELSE f.value
        pathValue == PathValueOf(req, f.path)
    IN  IF Len(f.path) > 0 /\ Len(pathValue) > 0
        THEN SetValueToReflected([f EXCEPT !.value = v1], pathValue, lib)
        ELSE v1

\* func (p *Parser) Url(target any) error (earlier source); its error for
\* a non-pointer is errors.New("target must be a pointer")
UrlResult_v0(req, tgt, ptr, lib) ==
    IF ~ptr THEN [err |-> "ErrorPointerTarget", target |-> tgt, at |-> 0]
    ELSE [err |-> NoError,
          target |-> [i \in DOMAIN tgt |->
                         [tgt[i] EXCEPT !.value = UrlField_v0(req, tgt[i], lib)]],
          at |-> Len(tgt) + 1]

Url_v0(ptr, lib) ==
    LET res == UrlResult_v0(r, Fresh(target), ptr, lib)
    IN  /\ call' = BindCall("Url_v0", "", ptr, res.err, res.at)
        /\ target' = res.target
        /\ UNCHANGED <<r, bytes, done>>

(***************************************************************************)
(* Requests and destinations of the binding runs.                          *)
(***************************************************************************)
MaxPairs == 2    \* most key=value pairs in a query string
MaxFields == 2   \* most fields of a destination struct

FieldTypes ==
    << Field("id", "id", "int"),
       Field("tags", "", "strings"),
       Field("", "", "string"),
       Field("", "id", "int") >>

\* the structs of n fields, each field one of FieldTypes
IsStruct(tgt, n) ==
    \E ix \in [1..n -> DOMAIN FieldTypes] : tgt = [i \in 1..n |-> FieldTypes[ix[i]]]

UrlRequests ==
    { [EmptyRequest EXCEPT !.query = q, !.path = pv] :
        q \in StringsUpTo(QueryPairs, MaxPairs),
        pv \in [PathKeys -> PathVals] }

InitField ==
    /\ r \in UrlRequests
    /\ bytes = <<>>
    /\ IsStruct(target, 1)
    /\ call = NoCall
    /\ done = NothingDone

NextField ==
    \/ \E key \in QueryKeys, ptr \in BOOLEAN, lib \in Libs :
           \/ Query(key, ptr, lib)
           \/ PathValue(key, ptr, lib)
           \/ QueryParam(key, ptr, lib)
           \/ PathValue_v0(key, ptr, lib)
    \/ \E ptr \in BOOLEAN, lib \in Libs :
           \/ Url(ptr, lib)
           \/ Url_v0(ptr, lib)

SpecField == InitField /\ [][NextField]_vars

InitStruct ==
    /\ r \in UrlRequests
    /\ bytes = <<>>
    /\ \E n \in 1..MaxFields : IsStruct(target, n)
    /\ call = NoCall
    /\ done = NothingDone

NextStruct ==
    \E ptr \in BOOLEAN, lib \in Libs :
        \/ Url(ptr, lib)
        \/ Url_v0(ptr, lib)

SpecStruct == InitStruct /\ [][NextStruct]_vars


(***************************************************************************)
(* Multipart uploads.  r.wire is the multipart body as the client sent it: *)
(* the file parts in order, each under a form field name.  A part has a    *)
(* file name, its bytes, and whether it can be opened and read when asked  *)
(* for.  r.parsed says that r.MultipartForm is set; r.MultipartForm.File   *)
(* then maps each field name to its parts, in the order of the body.       *)
(***************************************************************************)
MaxParts == 2    \* most file parts in a multipart body

FileKeys == {"avatar", "doc"}

FileParts ==
    { [Filename |-> <<"a", ".", "p">>, Data |-> <<"x">>, opens |-> TRUE],
      [Filename |-> <<"b">>, Data |-> <<"1">>, opens |-> TRUE],
      [Filename |-> <<"c", ".", "t">>, Data |-> <<>>, opens |-> FALSE] }

RECURSIVE FilesOf(_, _)
\* r.MultipartForm.File[name]
FilesOf(wire, name) ==
    IF wire = <<>> THEN <<>>
    ELSE IF Head(wire)[1] = name
         THEN <<Head(wire)[2]>> \o FilesOf(Tail(wire), name)
         ELSE FilesOf(Tail(wire), name)

\* the keys of r.MultipartForm.File
FormKeys(wire) == {wire[i][1] : i \in DOMAIN wire}

\* the orders in which a range over a Go map with these keys may run
Orders(keys) ==
    {o \in [1..Cardinality(keys) -> keys] :
        \A i, j \in DOMAIN o : i # j => o[i] # o[j]}

\* http.DetectContentType(data): every byte of the model is text
DetectContentType(data) == "text/plain; charset=utf-8"

RECURSIVE LastDot(_)
LastDot(name) ==
    IF name = <<>> THEN 0
    ELSE IF name[Len(name)] = "." THEN Len(name)
    ELSE LastDot(SubSeq(name, 1, Len(name) - 1))

\* util.GetFilenameSuffix(filename): what follows the last dot
GetFilenameSuffix(name) ==
    IF LastDot(name) = 0 THEN <<>> ELSE Drop(name, LastDot(name))

\* form.Multipart{}
EmptyMultipart ==
    [Key |-> "", Name |-> <<>>, Type |-> "", Suffix |-> <<>>, Data |-> <<>>]

Multipart(name, file) ==
    [Key |-> name, Name |-> file.Filename, Type |-> DetectContentType(file.Data),
     Suffix |-> GetFilenameSuffix(file.Filename), Data |-> file.Data]

RECURSIVE AppendFiles(_, _, _)
\* the inner loop of createMultiparts over the files of one field; a part
\* that fails does so when opened
AppendFiles(name, files, result) ==
    IF files = <<>> THEN [result |-> result, err |-> NoError]
    ELSE IF ~Head(files).opens THEN [result |-> result, err |-> "ErrorOpenFile"]
    ELSE AppendFiles(name, Tail(files), Append(result, Multipart(name, Head(files))))

RECURSIVE RangeFields(_, _, _, _)
\* the outer loop of createMultiparts, visiting the fields in order
RangeFields(wire, order, fn, result) ==
    IF order = <<>> THEN [result |-> result, err |-> NoError]
    ELSE IF Len(fn) > 0 /\ Head(order) # fn
    THEN RangeFields(wire, Tail(order), fn, result)
    ELSE LET res == AppendFiles(Head(order), FilesOf(wire, Head(order)), result)
         IN  IF res.err # NoError THEN res
             ELSE RangeFields(wire, Tail(order), fn, res.result)

\* func (p *Parser) createMultiparts(filename ...string) ([]form.Multipart, error)
createMultiparts(req, filename, order) ==
    LET fn == IF Len(filename) > 0 THEN filename[1] ELSE ""
    IN  RangeFields(req.wire, order, fn, <<>>)

\* r.ParseMultipartForm(maxMemory), the transport's multipart parse
ParseMultipartForm(req) ==
    IF req.parsed THEN [err |-> NoError, parsed |-> TRUE]
    ELSE IF ~req.multipart THEN [err |-> "ErrNotMultipart", parsed |-> FALSE]
    ELSE IF req.parseOk THEN [err |-> NoError, parsed |-> TRUE]
    ELSE [err |-> "ParseError", parsed |-> FALSE]

\* parseMultipartForm without its check of the request's encoding
parseMultipartForm_unchecked(req) ==
    [err |-> ParseMultipartForm(req).err,
     parsed |-> ParseMultipartForm(req).parsed, invoked |-> TRUE]

\* func (p *Parser) parseMultipartForm() error; invoked says whether the
\* transport's parse was called
parseMultipartForm(req) ==
    IF ~req.multipart
    THEN [err |-> "ErrorInvalidMultipart", parsed |-> req.parsed, invoked |-> FALSE]
    ELSE [err |-> ParseMultipartForm(req).err,
          parsed |-> ParseMultipartForm(req).parsed, invoked |-> TRUE]

FileCall(op, names, ret, err) ==
    [op |-> op, names |-> names, ret |-> ret, err |-> err, done0 |-> done]

\* what File or Files does to the request and to the history
Parsed(res) ==
    /\ r' = [r EXCEPT !.parsed = res.parsed]
    /\ done' = [done EXCEPT !.parse = done.parse \/ res.invoked]
    /\ UNCHANGED <<bytes, target>>

\* func (p *Parser) File(filename string) (form.Multipart, error)
File(filename) ==
    IF Len(bytes) > 0
    THEN /\ call' = FileCall("File", <<filename>>, EmptyMultipart, NoError)
         /\ UNCHANGED <<r, bytes, target, done>>
    ELSE LET res == parseMultipartForm(r)
         IN  /\ Parsed(res)
             /\ IF res.err # NoError
                THEN call' = FileCall("File", <<filename>>, EmptyMultipart, res.err)
                ELSE \E order \in Orders(FormKeys(r.wire)) :
                       LET m == createMultiparts(r, <<filename>>, order)
                       IN  call' = FileCall("File", <<filename>>,
                                     IF m.err # NoError \/ Len(m.result) = 0
                                     THEN EmptyMultipart ELSE m.result[1],
                                     m.err)

\* func (p *Parser) Files(filesname ...string) ([]form.Multipart, error)
Files(filesname) ==
    IF Len(bytes) > 0
    THEN /\ call' = FileCall("Files", filesname, <<>>, NoError)
         /\ UNCHANGED <<r, bytes, target, done>>
    ELSE LET res == parseMultipartForm(r)
         IN  /\ Parsed(res)
             /\ IF res.err # NoError
                THEN call' = FileCall("Files", filesname, <<>>, res.err)
                ELSE \E order \in Orders(FormKeys(r.wire)) :
                       LET m == createMultiparts(r, filesname, order)
                       IN  call' = FileCall("Files", filesname,
                                     IF m.err # NoError THEN <<>> ELSE m.result,
                                     m.err)

\* the field names a caller asks for
FileArgs == {"", "avatar", "doc"}

FilesArgs ==
    { <<>>, <<"avatar">>, <<"doc">>, <<"">>,
      <<"avatar", "doc">>, <<"doc", "avatar">>, <<"doc", "doc">> }

InitFile ==
    /\ \E mp \in BOOLEAN, ok \in BOOLEAN,
          w \in StringsUpTo(FileKeys \X FileParts, MaxParts) :
          /\ ~mp => w = <<>>
          /\ r = [EmptyRequest EXCEPT !.multipart = mp, !.parseOk = ok, !.wire = w]
    /\ bytes \in {<<>>, <<"x">>}
    /\ target = <<>>
    /\ call = NoCall
    /\ done = NothingDone

NextFile ==
    \/ \E filename \in FileArgs : File(filename)
    \/ \E filesname \in FilesArgs : Files(filesname)

SpecFile == InitFile /\ [][NextFile]_vars


(***************************************************************************)
(* The properties of the body accessors, checked under SpecBody.           *)
(***************************************************************************)

\* C5: Text over any sequence of calls.  With a pre-buffered payload every
\* Text call returns that payload without error and leaves the live stream
\* as it was, so two consecutive Text calls return identical strings.
\* Without a payload, the first Text call on a live stream returns all of
\* the stream not yet consumed (the whole body when nothing has read from
\* it) and leaves it drained, and every Text call after a Text call has
\* read the stream returns the empty string without error.
C5_TextOverCalls ==
    call.op = "Text" =>
        /\ Len(bytes) > 0 =>
              /\ call.ret = bytes
              /\ call.err = NoError
              /\ r.Body = call.body0
              /\ call.prev.op = "Text" => call.ret = call.prev.ret
        /\ (Len(bytes) = 0 /\ ~call.body0.isNil /\ ~call.done0.text) =>
              /\ call.ret = Remaining(call.body0)
              /\ call.body0.pos = 0 => call.ret = call.body0.data
              /\ call.err = NoError
              /\ Remaining(r.Body) = <<>>
        /\ (Len(bytes) = 0 /\ call.done0.text) =>
              /\ call.ret = <<>>
              /\ call.err = NoError

\* C5's case: a second Text call on a live stream whose first Text call
\* returned a body of several bytes
C5_Witness ==
    /\ call.op = "Text"
    /\ Len(bytes) = 0
    /\ call.done0.text
    /\ call.prev.op = "Text"
    /\ Len(call.prev.ret) > 1
    /\ call.prev.ret = r.Body.data
    /\ call.ret = <<>>

\* C9: Json against an empty body.  With no pre-buffered payload, when the
\* request body is nil or the live stream has no byte left (it was empty,
\* or an earlier body read drained it), Json returns no error and the
\* destination holds what it held before the call.
C9_JsonEmptyBody ==
    (/\ call.op = "Json"
     /\ Len(bytes) = 0
     /\ call.body0.isNil \/ Remaining(call.body0) = <<>>) =>
        /\ call.err = NoError
        /\ target = call.target0

\* C9's case: Json on a live stream that an earlier read drained, with a
\* destination an earlier Json call had already written
C9_Witness ==
    /\ call.op = "Json"
    /\ Len(bytes) = 0
    /\ ~call.body0.isNil
    /\ call.body0.pos > 0
    /\ Remaining(call.body0) = <<>>
    /\ call.err = NoError
    /\ target[1].value # OldValue("int")


(***************************************************************************)
(* The properties of the single-key extractors, checked under SpecField.   *)
(***************************************************************************)
SingleKeyOps == {"Query", "QueryParam", "PathValue", "PathValue_v0"}

UrlOps == {"Url", "Url_v0"}

\* C2: for Query (QueryParam), PathValue and Url, a destination that is
\* not a pointer always yields the PointerTarget error, whatever the
\* request holds for the key: never QueryMissing or PathValueMissing.
C2_PointerTargetFirst ==
    (call.op \in SingleKeyOps \cup UrlOps /\ ~call.ptr) =>
        call.err = "ErrorPointerTarget"

\* the values the query string holds for the key a call looks up: the key
\* given to Query, the query tag of the field for Url
LookedUp == 
    Values(r.query, IF call.op = "Url" THEN call.target0[1].query ELSE call.key)

\* C7: value-count dispatch in Query and in Url's query-tagged field, for
\* a pointer destination (and, in Url, a field whose path tag yields
\* nothing, so that the query value is what stays).  With exactly one value
\* the outcome is that of the scalar conversion of that value: a scalar
\* destination holds its parse, or the call fails and the destination is
\* unwritten when the literal does not parse.  With n >= 2 values and a
\* sequence destination the call succeeds and the destination holds
\* exactly the n converted values, in the order of the query string.
C7_ValueCountDispatch ==
    (/\ call.op \in {"Query", "Url"}
     /\ call.ptr
     /\ call.op = "Url" => PathValueOf(r, call.target0[1].path) = <<>>) =>
        LET f == call.target0[1]
            qv == LookedUp
            n == Len(qv)
        IN  /\ n = 1 =>
                 /\ \E lib \in Libs :
                        /\ call.err = ConvertValue(qv[1], f, TRUE, lib).err
                        /\ target[1].value = ConvertValue(qv[1], f, TRUE, lib).value
                 /\ (~IsSliceKind(f.kind) /\ ParseScalar(f.kind, qv[1]).ok) =>
                        /\ call.err = NoError
                        /\ target[1].value = ParseScalar(f.kind, qv[1]).value
                 /\ (~IsSliceKind(f.kind) /\ ~ParseScalar(f.kind, qv[1]).ok) =>
                        /\ call.err = "ConvertError"
                        /\ target[1].value = f.value
            /\ (n >= 2 /\ IsSliceKind(f.kind)) =>
                 /\ call.err = NoError
                 /\ Len(target[1].value) = n
                 /\ \A j \in 1..n :
                        target[1].value[j] = ParseScalar(ElemKind(f.kind), qv[j]).value

\* C7's case: Query with two different values of the key, bound in order
C7_Witness ==
    /\ call.op = "Query"
    /\ call.ptr
    /\ call.key = "tags"
    /\ call.target0[1].kind = "strings"
    /\ LookedUp = << <<"a">>, <<"4", "2">> >>
    /\ target[1].value = << <<"a">>, <<"4", "2">> >>

\* a call looks up a key the request has nothing for: a key absent from
\* the query mapping, or a path key that is absent or has an empty value
KeyMissing ==
    IF call.op \in {"Query", "QueryParam"} THEN ~Has(r.query, call.key)
    ELSE PathValueOf(r, call.key) = <<>>

MissingError ==
    CASE call.op = "Query" -> "ErrorQueryMissing"
      [] call.op = "QueryParam" -> "ErrorQueryParamMissing"
      [] OTHER -> "ErrorPathValueMissing"

\* C8 as it stands: missing-key errors of the single-key extractors.  For
\* every key absent from the query mapping Query (QueryParam) returns
\* QueryMissing (QueryParamMissing); for every path key that is absent or
\* whose value is empty PathValue returns PathValueMissing; in both cases
\* the destination is left unwritten.
C8_MissingKeyAnyDestination ==
    (call.op \in SingleKeyOps /\ KeyMissing) =>
        call.err = MissingError /\ target = call.target0

\* C8, amended: the same, for a destination passed as a pointer.
C8_MissingKey ==
    (call.op \in SingleKeyOps /\ call.ptr /\ KeyMissing) =>
        call.err = MissingError /\ target = call.target0

\* C8's case: PathValue for a key the route has, with an empty value, on a
\* request whose query string holds that key
C8_Witness ==
    /\ call.op = "PathValue"
    /\ call.ptr
    /\ call.key = "id"
    /\ PathValueOf(r, "id") = <<>>
    /\ Has(r.query, "id")
    /\ call.err = "ErrorPathValueMissing"

(***************************************************************************)
(* The properties of struct binding, checked under SpecStruct.             *)
(***************************************************************************)

\* C1: Url precedence.  After a successful Url call, every field tagged
\* with both a query key and a path key, for which the request holds a
\* value of the query key and a non-empty, convertible value of the path
\* key, equals the conversion of the path value.
C1_PathOverQuery ==
    (call.op \in UrlOps /\ call.ptr /\ call.err = NoError) =>
        \A i \in DOMAIN target :
            LET f == call.target0[i]
                pv == PathValueOf(r, f.path)
            IN  (/\ f.query # "" /\ f.path # ""
                 /\ Has(r.query, f.query)
                 /\ pv # <<>>
                 /\ ParseScalar(f.kind, pv).ok) =>
                    target[i].value = ParseScalar(f.kind, pv).value

\* C1's case: query id=42 and path id=7 for the same int field, bound to 7
C1_Witness ==
    /\ call.op = "Url"
    /\ call.ptr
    /\ call.err = NoError
    /\ \E i \in DOMAIN target :
          /\ call.target0[i].query = "id"
          /\ call.target0[i].path = "id"
          /\ Values(r.query, "id") = << <<"4", "2">> >>
          /\ PathValueOf(r, "id") = <<"7">>
          /\ target[i].value = 7

\* a field has no source: it has no query tag or the query string lacks
\* the tagged key, and it has no path tag or the path value is empty
NoSource(f) ==
    /\ f.query = "" \/ ~Has(r.query, f.query)
    /\ f.path = "" \/ PathValueOf(r, f.path) = <<>>

\* C3: Url leaves untouched every field that has no source: it holds after
\* the call what it held before, and Url raises no error for it.
C3_NoSourceUntouched ==
    (call.op \in UrlOps /\ call.ptr) =>
        \A i \in DOMAIN target :
            NoSource(call.target0[i]) =>
                /\ target[i].value = call.target0[i].value
                /\ call.err # NoError => call.at # i

\* C10: Url error propagation (current source).  Url fails only on a
\* non-pointer destination or with a field's conversion error.  When it
\* fails at a field, every earlier field was bound without error and holds
\* what was written to it, the failing field is one with a source present
\* in the request, and no later field is written.  When it succeeds, every
\* field was bound without error.
C10_UrlErrors ==
    call.op = "Url" =>
        /\ ~call.ptr => call.err = "ErrorPointerTarget" /\ target = call.target0
        /\ call.ptr =>
              \E lib \in Libs :
                 LET bound(j) == UrlField(r, call.target0[j], lib)
                     last == IF call.err = NoError THEN Len(target) ELSE call.at - 1
                 IN  /\ call.err \in {NoError, "ConvertError"}
                     /\ call.err = NoError => call.at = Len(target) + 1
                     /\ call.err # NoError =>
                           /\ call.at \in DOMAIN target
                           /\ bound(call.at).err = call.err
                           /\ \/ Has(r.query, call.target0[call.at].query)
                              \/ PathValueOf(r, call.target0[call.at].path) # <<>>
                           /\ \A j \in DOMAIN target :
                                 j > call.at => target[j] = call.target0[j]
                     /\ \A j \in 1..last :
                           /\ bound(j).err = NoError
                           /\ target[j].value = bound(j).value

\* C10's case: the second field fails to convert after the first field was
\* written, and the first field keeps the written value
C10_Witness ==
    /\ call.op = "Url"
    /\ call.ptr
    /\ call.err = "ConvertError"
    /\ call.at = 2
    /\ target[1].value # call.target0[1].value
    /\ target[2].value = call.target0[2].value


(***************************************************************************)
(* The properties of File and Files, checked under SpecFile.               *)
(***************************************************************************)
RECURSIVE PartsUnder(_, _)
\* the parts of the body uploaded under one of the names, in body order
PartsUnder(wire, names) ==
    IF wire = <<>> THEN <<>>
    ELSE IF Head(wire)[1] \in names
         THEN <<Multipart(Head(wire)[1], Head(wire)[2])>> \o PartsUnder(Tail(wire), names)
         ELSE PartsUnder(Tail(wire), names)

Count(seq, x) == Cardinality({i \in DOMAIN seq : seq[i] = x})

\* the two sequences hold the same parts, each as many times
SameParts(s, t) ==
    /\ Len(s) = Len(t)
    /\ \A i \in DOMAIN s : Count(s, s[i]) = Count(t, s[i])

\* C4: File/Files selection on a multipart request, for a call that is
\* given no empty name and returns without error.  File(name) returns the
\* first part uploaded under field name, or the empty file value when no
\* part was uploaded under it; Files() returns every uploaded part of every
\* field; Files(n1, ..., nk) returns exactly the parts whose field name is
\* one of the given names.
C4_Selection ==
    (/\ call.op \in {"File", "Files"}
     /\ Len(bytes) = 0
     /\ call.err = NoError
     /\ \A i \in DOMAIN call.names : call.names[i] # "") =>
        LET given == {call.names[i] : i \in DOMAIN call.names}
            under == PartsUnder(r.wire, given)
        IN  /\ call.op = "File" =>
                 call.ret = IF under = <<>> THEN EmptyMultipart ELSE under[1]
            /\ (call.op = "Files" /\ call.names = <<>>) =>
                 SameParts(call.ret, PartsUnder(r.wire, FileKeys))
            /\ (call.op = "Files" /\ call.names # <<>>) =>
                 SameParts(call.ret, under)

\* C6 as it stands: File and Files on any request that is not
\* multipart-encoded return the InvalidMultipart error and no file parts,
\* and the transport's multipart parse is not called.
C6_NotMultipart ==
    (call.op \in {"File", "Files"} /\ ~r.multipart) =>
        /\ call.err = "ErrorInvalidMultipart"
        /\ call.ret = IF call.op = "File" THEN EmptyMultipart ELSE <<>>
        /\ ~done.parse

\* C6, amended: on a request that is not multipart-encoded File and Files
\* return no file parts and never call the transport's multipart parse;
\* they return the InvalidMultipart error when no pre-buffered payload was
\* supplied, and no error when one was.
C6_NotMultipartNoPayload ==
    (call.op \in {"File", "Files"} /\ ~r.multipart) =>
        /\ call.err = IF Len(bytes) = 0 THEN "ErrorInvalidMultipart" ELSE NoError
        /\ call.ret = IF call.op = "File" THEN EmptyMultipart ELSE <<>>
        /\ ~done.parse

\* C6's case: Files on a request that is not multipart-encoded, by a parser
\* without a payload, after an earlier call
C6_Witness ==
    /\ call.op = "Files"
    /\ ~r.multipart
    /\ Len(bytes) = 0
    /\ call.done0 = done
    /\ call.err = "ErrorInvalidMultipart"
    /\ call.names = <<"avatar", "doc">>

=============================================================================
